---- MODULE Spec2Model ----
(***************************************************************************)
(* The movie-review on-chain program: reviews, their comment counters and  *)
(* comments, each stored in an account at a program-derived address.       *)
(*                                                                         *)
(* A request runs to completion; the runtime discards every account change *)
(* of a request that returns an error or panics.  One action = one request.*)
(*                                                                         *)
(* Representation                                                          *)
(*   string    [id, len]: the content (an identifier) and the byte length  *)
(*   u64       its 8 little-endian bytes, as borsh stores it               *)
(*   address   a sequence of naturals: a user key is <<u>>, a derived      *)
(*             address is the concatenation of its seeds (the hash is      *)
(*             taken to be collision free)                                 *)
(*   Pubkey    [base, lo]: the address and the key's first 8 bytes, which  *)
(*             a read of the record as another record type exposes         *)
(***************************************************************************)
EXTENDS Integers, Sequences, FiniteSets, TLC

VARIABLES accounts, last

vars == <<accounts, last>>

----------------------------------------------------------------------------
(* Bounds of the model *)

\* reviews that may exist at once
MaxReviews == 1

\* comments that may exist at once
MaxComments == 2

\* inputs of a request that may differ from those of a well-formed request
MaxFaults == 2

----------------------------------------------------------------------------
(* Inputs *)

Users == {1, 2}

Str(i, n) == [id |-> i, len |-> n]

\* two titles that fit a seed, one that is longer than a seed may be
Titles == {Str(11, 5), Str(12, 5), Str(13, 33)}

Ratings == {0, 1, 5, 6}

\* description lengths: small; the largest that fits the 1000-byte record next
\* to a 5-byte title; the largest the size check admits; one more
Descriptions == {Str(31, 10), Str(32, 943), Str(33, 975), Str(34, 976)}

\* the instruction data: empty, or a variant byte and a payload that is the
\* encoding of a review payload, of a comment payload, or of neither
InstructionData ==
    {[empty |-> TRUE, variant |-> 0, kind |-> "garbage",
      title |-> Str(11, 5), rating |-> 1, description |-> Str(31, 10)]}
    \cup [empty : {FALSE}, variant : 0..3, kind : {"review", "comment", "garbage"},
          title : Titles, rating : Ratings, description : Descriptions]

\* comment texts: the largest that fits, and one byte more
Texts == {Str(41, 912), Str(42, 913)}

----------------------------------------------------------------------------
(* Integers and byte strings *)

RECURSIVE U64Bytes(_, _)
\* n as k little-endian bytes
U64Bytes(n, k) == IF k = 0 THEN <<>> ELSE <<n % 256>> \o U64Bytes(n \div 256, k - 1)

Rev(s) == [i \in 1..Len(s) |-> s[Len(s) + 1 - i]]

to_le_bytes(c) == c

to_be_bytes(c) == Rev(c)

RECURSIVE Inc(_)
\* c + 1 on the little-endian bytes, wrapping at 2^64
Inc(c) ==
    IF c = <<>> THEN <<>>
    ELSE IF Head(c) = 255 THEN <<0>> \o Inc(Tail(c))
    ELSE <<Head(c) + 1>> \o Tail(c)

----------------------------------------------------------------------------
(* Addresses *)

UserKey(u) == <<u>>

\* a seed: its content and its length in bytes
KeySeed(a) == [bytes |-> a, len |-> 32]

StrSeed(s) == [bytes |-> <<s.id>>, len |-> s.len]

CommentLiteral == [bytes |-> <<7>>, len |-> 7]

BytesSeed(b) == [bytes |-> b, len |-> Len(b)]

\* the address a list of two seeds hashes to
create_program_address(seeds) == seeds[1].bytes \o seeds[2].bytes

\* Pubkey::find_program_address: no address (the caller panics) when a seed is
\* longer than 32 bytes; the bump seed it returns belongs to these seeds only
find_program_address(seeds) ==
    [ok  |-> \A i \in 1..Len(seeds) : seeds[i].len <= 32,
     key |-> create_program_address(seeds)]

ReviewAddr(u, t) == create_program_address(<<KeySeed(UserKey(u)), StrSeed(t)>>)

CounterAddr(r) == create_program_address(<<KeySeed(r), CommentLiteral>>)

CommentAddr(r, c) == create_program_address(<<KeySeed(r), BytesSeed(to_be_bytes(c))>>)

\* the number a u64 holds, for the numbers below 2^24; -1 for the others
Val(c) ==
    IF \A i \in 4..8 : c[i] = 0 THEN c[1] + 256 * c[2] + 65536 * c[3] ELSE -1

\* the first 8 bytes of the 32-byte key at an address.  User 2 holds a vanity
\* key, and title 12 is ground so that its reviews' addresses are vanity
\* addresses: their first 8 bytes read the same in both directions
KeyPrefix(a) ==
    IF Len(a) <= 2 /\ a[Len(a)] \in {2, 12} THEN <<1, 0, 0, 0, 0, 0, 0, 1>>
    ELSE <<a[1], Len(a), 0, 0, 0, 0, 0, 9>>

Pubkey(a) == [base |-> a, lo |-> KeyPrefix(a)]

\* accounts this program does not own: a zero-filled account of the system
\* program, and an account of another program holding a forged counter
ZeroedKey == <<101>>

ForgedKey == <<102>>

----------------------------------------------------------------------------
(* Records *)

Zero64 == U64Bytes(0, 8)

DiscLen(d) ==
    CASE d = "review" -> 6
      [] d = "counter" -> 7
      [] d = "comment" -> 7
      [] OTHER -> 0

\* what a freshly allocated (zero-filled) account decodes to
ZeroRecord == [discriminator |-> "", is_initialized |-> FALSE]

MovieAccountState_MAX_ACCOUNT_SIZE == 1000

MovieComment_MAX_ACCOUNT_SIZE == 1000

\* MovieAccountState::get_account_size
MovieAccountState_get_account_size(title, description) ==
    (4 + DiscLen("review")) + 1 + 1 + (4 + title.len) + (4 + description.len)

\* MovieCommentCounter::get_account_size
MovieCommentCounter_get_account_size == (4 + DiscLen("counter")) + 1 + 8

\* MovieComment::get_account_size
MovieComment_get_account_size(comment) ==
    (4 + DiscLen("comment")) + 1 + 32 + 32 + (4 + comment.len) + 8

\* the bytes borsh writes for a record, field by field
EncodedSize(rec) ==
    CASE rec.discriminator \in {"review", ""} /\ "rating" \in DOMAIN rec ->
            (4 + DiscLen(rec.discriminator)) + 1 + 32 + 1
            + (4 + rec.title.len) + (4 + rec.description.len)
      [] "counter" \in DOMAIN rec ->
            (4 + DiscLen(rec.discriminator)) + 1 + 8
      [] OTHER ->
            (4 + DiscLen(rec.discriminator)) + 1 + 32 + 32
            + (4 + rec.comment.len) + 8

\* the data of the account behind a handle; "none" for an account with no data
DataOf(accts, h) ==
    IF h \in DOMAIN accts THEN accts[h]
    ELSE IF h = ZeroedKey THEN ZeroRecord
    ELSE IF h = ForgedKey
      THEN [discriminator |-> "counter", is_initialized |-> TRUE, counter |-> Zero64]
    ELSE [discriminator |-> "none", is_initialized |-> FALSE]

\* a program that leaves the owner check out
OwnedByProgram_Unchecked(accts, h) == TRUE

\* the owner check: the program owns exactly the accounts it created
OwnedByProgram(accts, h) == h \in DOMAIN accts

\* try_from_slice_unchecked::<MovieCommentCounter>: the leading bytes of any
\* record read as (discriminator, is_initialized, u64)
AsCounter(data) ==
    IF data.discriminator = "none" THEN [ok |-> FALSE]
    ELSE [ok |-> TRUE,
          discriminator |-> data.discriminator,
          is_initialized |-> data.is_initialized,
          counter |-> IF "counter" \in DOMAIN data THEN data.counter
                      ELSE IF "reviewer" \in DOMAIN data THEN data.reviewer.lo
                      ELSE Zero64]

\* counter_data.serialize into an account: the u64 lands on the 8 bytes after
\* the discriminator and the flag
StoreCounter(data, c) ==
    IF "counter" \in DOMAIN data THEN [data EXCEPT !.counter = c]
    ELSE [data EXCEPT !.reviewer = [@ EXCEPT !.lo = c]]

Put(f, k, v) == [x \in DOMAIN f \cup {k} |-> IF x = k THEN v ELSE f[x]]

Reviews(accts) == {a \in DOMAIN accts : accts[a].discriminator = "review"}

Counters(accts) == {a \in DOMAIN accts : accts[a].discriminator = "counter"}

Comments(accts) == {a \in DOMAIN accts : accts[a].discriminator = "comment"}

----------------------------------------------------------------------------
(* The system program's create_account, called through invoke_signed *)

\* a create_account that allocates over an account of this program
system_create_account_Reusing(wk, payerSigned, to, signed, funds) ==
    IF ~payerSigned \/ to # signed THEN "PrivilegeEscalation"
    ELSE IF to \in {ZeroedKey, ForgedKey} \/ Len(to) = 1 THEN "AccountAlreadyInUse"
    ELSE IF funds = 0 THEN "InsufficientFunds"
    ELSE "Ok"

\* signed: the address the signer seeds produce; to: the account to create
system_create_account(wk, payerSigned, to, signed, funds) ==
    IF ~payerSigned \/ to # signed THEN "PrivilegeEscalation"
    ELSE IF to \in DOMAIN wk \/ to \in {ZeroedKey, ForgedKey} \/ Len(to) = 1
      THEN "AccountAlreadyInUse"
    ELSE IF funds = 0 THEN "InsufficientFunds"
    ELSE "Ok"

\* the outcome of a request
Outcome(e, a, l) == [err |-> e, accts |-> a, log |-> l]

\* a program that leaves the address check out
AddressMatches_Unchecked(derived, handle) == TRUE

\* a program that compares only the last seed's part of the two addresses
AddressMatches_LastSeed(derived, handle) ==
    derived[Len(derived)] = handle[Len(handle)]

\* a program that compares only the first seed's part of the two addresses
AddressMatches_FirstSeed(derived, handle) == derived[1] = handle[1]

\* the derived address against the handle supplied
AddressMatches(derived, handle) == derived = handle

\* (1..=5).contains(&rating)
RatingInRange(rating) == rating \in 1..5

\* the Review that add_movie_review writes
review_record(rq) ==
    [discriminator  |-> "review",
     is_initialized |-> TRUE,
     reviewer       |-> Pubkey(UserKey(rq.reviewer)),
     rating         |-> rq.rating,
     title          |-> rq.title,
     description    |-> rq.description]

\* a CommentCounter written without its initialized flag
counter_record_Unflagged ==
    [discriminator |-> "counter", is_initialized |-> FALSE, counter |-> Zero64]

\* the CommentCounter that add_movie_review writes
counter_record ==
    [discriminator |-> "counter", is_initialized |-> TRUE, counter |-> Zero64]

\* the Comment that add_comment writes
comment_record(rq, counter) ==
    [discriminator  |-> "comment",
     is_initialized |-> TRUE,
     reviewer       |-> Pubkey(rq.pda_review),
     commenter      |-> Pubkey(UserKey(rq.commenter)),
     comment        |-> rq.comment,
     count          |-> counter]

\* the seeds add_comment derives the comment address from
comment_seeds(review, counter) ==
    <<KeySeed(review), BytesSeed(to_be_bytes(counter))>>

\* the seeds add_comment signs the comment's allocation with
comment_signer_seeds(review, counter) ==
    <<KeySeed(review), BytesSeed(to_le_bytes(counter))>>

----------------------------------------------------------------------------
(* processor.rs: add_movie_review *)

\* rq: n accounts supplied; reviewer, signer; the handles pda_review and
\* pda_comment_counter; title, rating, description; funds: the allocations
\* the reviewer can pay for
add_movie_review(accts, rq) ==
    LET reviewerKey == UserKey(rq.reviewer)
        found       == find_program_address(<<KeySeed(reviewerKey), StrSeed(rq.title)>>)
        total_len   == MovieAccountState_get_account_size(rq.title, rq.description)
        cpi1        == system_create_account(accts, rq.signer, rq.pda_review,
                                             found.key, rq.funds)
        wk1         == Put(accts, rq.pda_review, ZeroRecord)
        account_data == review_record(rq)
        wk2         == Put(wk1, rq.pda_review, account_data)
        cfound      == find_program_address(<<KeySeed(rq.pda_review), CommentLiteral>>)
        cpi2        == system_create_account(wk2, rq.signer, rq.pda_comment_counter,
                                             cfound.key, rq.funds - 1)
        wk3         == Put(wk2, rq.pda_comment_counter, ZeroRecord)
        counter_data == counter_record
        wk4         == Put(wk3, rq.pda_comment_counter, counter_data)
        l1          == <<"alloc review">>
        l2          == <<"alloc review", "write review">>
        l3          == <<"alloc review", "write review", "alloc counter">>
        l4          == <<"alloc review", "write review", "alloc counter", "write counter">>
    IN  IF rq.n < 4 THEN Outcome("NotEnoughAccountKeys", accts, <<>>)
        ELSE IF ~rq.signer THEN Outcome("MissingRequiredSignature", accts, <<>>)
        ELSE IF ~found.ok THEN Outcome("Panic", accts, <<>>)
        ELSE IF ~AddressMatches(found.key, rq.pda_review)
          THEN Outcome("InvalidPDA", accts, <<>>)
        ELSE IF ~RatingInRange(rq.rating) THEN Outcome("InvalidRating", accts, <<>>)
        ELSE IF total_len > MovieAccountState_MAX_ACCOUNT_SIZE
          THEN Outcome("InvalidDataLength", accts, <<>>)
        ELSE IF cpi1 # "Ok" THEN Outcome(cpi1, accts, <<>>)
        ELSE IF wk1[rq.pda_review].is_initialized
          THEN Outcome("UninitializedAccount", accts, l1)
        ELSE IF EncodedSize(account_data) > MovieAccountState_MAX_ACCOUNT_SIZE
          THEN Outcome("BorshIoError", accts, l1)
        ELSE IF ~AddressMatches(cfound.key, rq.pda_comment_counter)
          THEN Outcome("InvalidPDA", accts, l2)
        ELSE IF cpi2 # "Ok" THEN Outcome(cpi2, accts, l2)
        ELSE IF wk3[rq.pda_comment_counter].is_initialized
          THEN Outcome("UninitializedAccount", accts, l3)
        ELSE Outcome("Ok", wk4, l4)

----------------------------------------------------------------------------
(* processor.rs: update_movie_review *)

\* rq: n accounts supplied; updater, signer; the handle pda_account; title,
\* rating, description
update_movie_review(accts, rq) ==
    LET found     == find_program_address(<<KeySeed(UserKey(rq.updater)), StrSeed(rq.title)>>)
        total_len == MovieAccountState_get_account_size(rq.title, rq.description)
        old       == DataOf(accts, rq.pda_account)
        account_data == [old EXCEPT !.title = rq.title,
                                    !.rating = rq.rating,
                                    !.description = rq.description]
    IN  IF rq.n < 2 THEN Outcome("NotEnoughAccountKeys", accts, <<>>)
        ELSE IF ~OwnedByProgram(accts, rq.pda_account)
          THEN Outcome("IllegalOwner", accts, <<>>)
        ELSE IF ~rq.signer THEN Outcome("MissingRequiredSignature", accts, <<>>)
        ELSE IF ~found.ok THEN Outcome("Panic", accts, <<>>)
        ELSE IF ~AddressMatches(found.key, rq.pda_account)
          THEN Outcome("InvalidPDA", accts, <<>>)
        ELSE IF ~RatingInRange(rq.rating) THEN Outcome("InvalidRating", accts, <<>>)
        ELSE IF total_len > MovieAccountState_MAX_ACCOUNT_SIZE
          THEN Outcome("InvalidDataLength", accts, <<>>)
        ELSE IF ~old.is_initialized THEN Outcome("UninitializedAccount", accts, <<>>)
        ELSE IF EncodedSize(account_data) > MovieAccountState_MAX_ACCOUNT_SIZE
          THEN Outcome("BorshIoError", accts, <<>>)
        ELSE Outcome("Ok", Put(accts, rq.pda_account, account_data), <<"write review">>)

----------------------------------------------------------------------------
(* processor.rs: add_comment *)

\* rq: n accounts supplied; commenter, signer; the handles pda_review,
\* pda_counter and pda_comment; comment; funds
add_comment(accts, rq) ==
    LET read         == AsCounter(DataOf(accts, rq.pda_counter))
        counter      == read.counter
        found        == find_program_address(comment_seeds(rq.pda_review, counter))
        total_len    == MovieComment_get_account_size(rq.comment)
        signed       == create_program_address(
                            comment_signer_seeds(rq.pda_review, counter))
        cpi          == system_create_account(accts, rq.signer, rq.pda_comment,
                                              signed, rq.funds)
        wk1          == Put(accts, rq.pda_comment, ZeroRecord)
        comment_data == comment_record(rq, counter)
        wk2          == Put(wk1, rq.pda_comment, comment_data)
        wk3          == Put(wk2, rq.pda_counter,
                            StoreCounter(DataOf(wk2, rq.pda_counter), Inc(counter)))
        l1           == <<"alloc comment">>
        l2           == <<"alloc comment", "write comment">>
        l3           == <<"alloc comment", "write comment", "write counter">>
    IN  IF rq.n < 5 THEN Outcome("NotEnoughAccountKeys", accts, <<>>)
        ELSE IF ~read.ok THEN Outcome("Panic", accts, <<>>)
        ELSE IF ~read.is_initialized THEN Outcome("UninitializedAccount", accts, <<>>)
        ELSE IF ~rq.signer THEN Outcome("MissingRequiredSignature", accts, <<>>)
        ELSE IF ~OwnedByProgram(accts, rq.pda_review)
          THEN Outcome("IllegalOwner", accts, <<>>)
        ELSE IF ~AddressMatches(found.key, rq.pda_comment)
          THEN Outcome("InvalidPDA", accts, <<>>)
        ELSE IF total_len > MovieComment_MAX_ACCOUNT_SIZE
          THEN Outcome("InvalidDataLength", accts, <<>>)
        ELSE IF cpi # "Ok" THEN Outcome(cpi, accts, <<>>)
        ELSE IF wk1[rq.pda_comment].is_initialized
          THEN Outcome("UninitializedAccount", accts, l1)
        ELSE IF EncodedSize(comment_data) > MovieComment_MAX_ACCOUNT_SIZE
          THEN Outcome("BorshIoError", accts, l1)
        ELSE IF ~OwnedByProgram(wk2, rq.pda_counter)
          THEN Outcome("ExternalAccountDataModified", accts, l3)
        ELSE Outcome("Ok", wk3, l3)

----------------------------------------------------------------------------
(* instruction.rs: MovieInstruction::unpack *)

\* MovieReviewPayload::try_from_slice(rest).unwrap() panics on a payload that
\* is not the encoding of (title, rating, description)
unpack(input) ==
    IF input.empty THEN [err |-> "InvalidInstructionData"]
    ELSE IF input.kind # "review" THEN [err |-> "Panic"]
    ELSE IF input.variant = 0
      THEN [err |-> "Ok", op |-> "AddMovieReview", title |-> input.title,
            rating |-> input.rating, description |-> input.description]
    ELSE [err |-> "InvalidInstructionData"]

----------------------------------------------------------------------------
(* lib.rs: the entrypoint and its add_movie_review *)

\* rq: n accounts supplied; initializer, signer; the handle pda_account;
\* title, rating, description; funds
lib_add_movie_review(accts, rq) ==
    LET found       == find_program_address(
                           <<KeySeed(UserKey(rq.initializer)), StrSeed(rq.title)>>)
        account_len == 1 + 1 + (4 + rq.title.len) + (4 + rq.description.len)
        cpi         == system_create_account(accts, rq.signer, rq.pda_account,
                                             found.key, rq.funds)
        zeroed      == [discriminator  |-> "",
                        is_initialized |-> FALSE,
                        reviewer       |-> [base |-> <<0>>, lo |-> Zero64],
                        rating         |-> 0,
                        title          |-> Str(0, 0),
                        description    |-> Str(0, 0)]
        account_data == [zeroed EXCEPT !.title = rq.title,
                                       !.rating = rq.rating,
                                       !.description = rq.description,
                                       !.is_initialized = TRUE]
    IN  IF rq.n < 3 THEN Outcome("NotEnoughAccountKeys", accts, <<>>)
        ELSE IF ~found.ok THEN Outcome("Panic", accts, <<>>)
        ELSE IF cpi # "Ok" THEN Outcome(cpi, accts, <<>>)
        ELSE IF EncodedSize(zeroed) > account_len
          THEN Outcome("BorshIoError", accts, <<"alloc review">>)
        ELSE IF EncodedSize(account_data) > account_len
          THEN Outcome("BorshIoError", accts, <<"alloc review">>)
        ELSE Outcome("Ok", Put(accts, rq.pda_account, account_data),
                     <<"alloc review", "write review">>)

\* lib.rs process_instruction: decode, then the only variant it knows
lib_process_instruction(accts, input, rq) ==
    LET instruction == unpack(input)
    IN  IF instruction.err # "Ok" THEN Outcome(instruction.err, accts, <<>>)
        ELSE lib_add_movie_review(accts,
                 [rq EXCEPT !.title = instruction.title,
                            !.rating = instruction.rating,
                            !.description = instruction.description])

\* processor.rs process_instruction: the match on the decoded instruction
process_instruction(accts, instruction, rq) ==
    CASE instruction = "AddMovieReview"    -> add_movie_review(accts, rq)
      [] instruction = "UpdateMovieReview" -> update_movie_review(accts, rq)
      [] instruction = "AddComment"        -> add_comment(accts, rq)

----------------------------------------------------------------------------
(* The state machine *)

(* accounts: the accounts the program owns, by address.                    *)
(* last:     the request just handled, with the accounts before it and its *)
(*           outcome, until its caller has taken the result; then Idle     *)

Idle == [op |-> "none"]

Note(op, rq, res) ==
    [op |-> op, rq |-> rq, before |-> accounts, err |-> res.err, log |-> res.log]

Init ==
    /\ accounts = <<>>
    /\ last = Idle

WithinBounds(accts) ==
    /\ Cardinality(Reviews(accts)) <= MaxReviews
    /\ Cardinality(Comments(accts)) <= MaxComments

B(p) == IF p THEN 1 ELSE 0

\* the inputs of a request that is well formed
GoodRatings == {1, 5}

GoodDescriptions == {Str(31, 10), Str(32, 943)}

GoodTitles == {t \in Titles : t.len <= 32}

GoodTexts == {Str(41, 912)}

\* how many inputs of a review payload are not those of a well-formed request
PayloadFaults(title, rating, description) ==
    B(title \notin GoodTitles) + B(rating \notin GoodRatings)
    + B(description \notin GoodDescriptions)

CreateFaults(rq) ==
    B(rq.n < 4) + B(~rq.signer)
    + B(rq.pda_review # ReviewAddr(rq.reviewer, rq.title))
    + B(rq.pda_comment_counter # CounterAddr(rq.pda_review))
    + PayloadFaults(rq.title, rq.rating, rq.description)
    + B(rq.funds < 2)

\* the create requests the model submits
CreateRequests ==
    {rq \in
        {[n |-> n, reviewer |-> u, signer |-> s,
          pda_review |-> ReviewAddr(hu, t),
          pda_comment_counter |-> CounterAddr(ReviewAddr(cu, t)),
          title |-> t, rating |-> r, description |-> d, funds |-> f] :
            n \in 3..4, u \in Users, s \in BOOLEAN, hu \in Users, cu \in Users,
            t \in Titles, r \in Ratings, d \in Descriptions, f \in 0..2} :
        CreateFaults(rq) <= MaxFaults}

CreateReview ==
    /\ last = Idle
    /\ \E rq \in CreateRequests :
        LET res == process_instruction(accounts, "AddMovieReview", rq)
        IN  /\ WithinBounds(res.accts)
            /\ accounts' = res.accts
            /\ last' = Note("create", rq, res)

\* handles an update may name: the review addresses and their counters
UpdateHandles ==
    LET R == {ReviewAddr(u, t) : u \in Users, t \in GoodTitles}
    IN  R \cup {CounterAddr(r) : r \in R}

UpdateFaults(rq) ==
    B(rq.n < 2) + B(~rq.signer)
    + B(rq.pda_account # ReviewAddr(rq.updater, rq.title))
    + PayloadFaults(rq.title, rq.rating, rq.description)

\* the update requests the model submits
UpdateRequests ==
    {rq \in
        {[n |-> n, updater |-> u, signer |-> s, pda_account |-> h,
          title |-> t, rating |-> r, description |-> d] :
            n \in 1..2, u \in Users, s \in BOOLEAN, h \in UpdateHandles,
            t \in Titles, r \in Ratings, d \in Descriptions} :
        UpdateFaults(rq) <= MaxFaults}

UpdateReview ==
    /\ last = Idle
    /\ \E rq \in UpdateRequests :
        LET res == process_instruction(accounts, "UpdateMovieReview", rq)
        IN  /\ WithinBounds(res.accts)
            /\ accounts' = res.accts
            /\ last' = Note("update", rq, res)

\* handles an add-comment may name as review and as counter
ReviewHandles(accts) == DOMAIN accts \cup {UserKey(1)}

CounterHandles(accts) == DOMAIN accts \cup {UserKey(1), ZeroedKey, ForgedKey}

\* the comment address that goes with the supplied review and counter handles
DerivedComment(accts, r, c) ==
    LET read == AsCounter(DataOf(accts, c))
    IN  CommentAddr(r, IF read.ok THEN read.counter ELSE Zero64)

\* a comment address that does not: the one for the next counter value
OtherComment(accts, r, c) ==
    LET read == AsCounter(DataOf(accts, c))
    IN  CommentAddr(r, IF read.ok THEN Inc(read.counter) ELSE Inc(Zero64))

\* the inputs of an add-comment besides the review and counter handles;
\* derived: whether the comment handle goes with those two
AddInputs ==
    {p \in [n : 4..5, commenter : Users, signer : BOOLEAN, derived : BOOLEAN,
            comment : Texts, funds : 0..1] :
        B(p.n < 5) + B(~p.signer) + B(~p.derived) + B(p.comment \notin GoodTexts)
        + B(p.funds < 1) <= MaxFaults}

AddRequest(accts, r, c, p) ==
    [n |-> p.n, commenter |-> p.commenter, signer |-> p.signer,
     pda_review |-> r, pda_counter |-> c,
     pda_comment |-> IF p.derived THEN DerivedComment(accts, r, c)
                     ELSE OtherComment(accts, r, c),
     comment |-> p.comment, funds |-> p.funds]

\* the add-comment requests the model submits
AddRequests(accts) ==
    {AddRequest(accts, r, c, p) :
        r \in ReviewHandles(accts), c \in CounterHandles(accts), p \in AddInputs}

AddComment ==
    /\ last = Idle
    /\ \E rq \in AddRequests(accounts) :
        LET res == process_instruction(accounts, "AddComment", rq)
        IN  /\ WithinBounds(res.accts)
            /\ accounts' = res.accts
            /\ last' = Note("add", rq, res)

EntryFaults(rq) ==
    B(rq.input.empty) + B(rq.input.variant # 0) + B(rq.input.kind # "review")
    + PayloadFaults(rq.input.title, rq.input.rating, rq.input.description)
    + B(rq.n < 3) + B(~rq.signer)
    + B(rq.pda_account # ReviewAddr(rq.initializer, rq.input.title))
    + B(rq.funds < 1)

\* the requests the model submits to the entrypoint of lib.rs
EntryRequests ==
    {rq \in
        {[n |-> n, initializer |-> u, signer |-> s,
          pda_account |-> ReviewAddr(hu, input.title),
          title |-> input.title, rating |-> input.rating,
          description |-> input.description, funds |-> f, input |-> input] :
            input \in InstructionData, n \in 2..3, u \in Users, s \in BOOLEAN,
            hu \in Users, f \in 0..1} :
        EntryFaults(rq) <= MaxFaults}

\* a request through the entrypoint of lib.rs
Entry ==
    /\ last = Idle
    /\ \E rq \in EntryRequests :
        LET res == lib_process_instruction(accounts, rq.input, rq)
        IN  /\ WithinBounds(res.accts)
            /\ accounts' = res.accts
            /\ last' = Note("entry", rq, res)

\* the caller takes the result
Return ==
    /\ last # Idle
    /\ last' = Idle
    /\ UNCHANGED accounts

Next ==
    \/ CreateReview
    \/ UpdateReview
    \/ AddComment
    \/ Entry
    \/ Return

Spec == Init /\ [][Next]_vars

----------------------------------------------------------------------------
(* Properties *)

Range(f) == {f[i] : i \in DOMAIN f}

Initialized(accts, a) == a \in DOMAIN accts /\ accts[a].is_initialized

Handled(ops) == last.op \in ops

\* the request just handled left every account as it was
Unchanged == accounts = last.before

\* the sequence values of the comments of review r
SequencesOf(accts, r) ==
    {accts[m].count : m \in {x \in Comments(accts) : accts[x].reviewer = Pubkey(r)}}

\* the first n sequence values
FirstSequences(n) == {U64Bytes(i, 8) : i \in 0..(n - 1)}

\* review r has its counter, and its comments carry 0, 1, ..., count - 1
InSequence(accts, r) ==
    /\ Initialized(accts, r)
    /\ accts[r].discriminator = "review"
    /\ Initialized(accts, CounterAddr(r))
    /\ Val(accts[CounterAddr(r)].counter) >= 0
    /\ SequencesOf(accts, r) = FirstSequences(Val(accts[CounterAddr(r)].counter))

\* C1 (as claimed): counter monotonicity.  On a review that has seen only
\* sequential comments (its comments carry 0 .. count-1), a signed, funded
\* add-comment that names the review's counter and the comment address
\* derived from (review, count) succeeds, the comment carries count as its
\* sequence value, and the counter then holds count + 1.
C1_CounterMonotonicity ==
    (/\ Handled({"add"})
     /\ last.rq.n = 5 /\ last.rq.signer /\ last.rq.funds >= 1
     /\ last.rq.comment \in GoodTexts
     /\ InSequence(last.before, last.rq.pda_review)
     /\ last.rq.pda_counter = CounterAddr(last.rq.pda_review)
     /\ last.rq.pda_comment =
            CommentAddr(last.rq.pda_review, last.before[last.rq.pda_counter].counter))
    => (/\ last.err = "Ok"
        /\ Initialized(accounts, last.rq.pda_comment)
        /\ accounts[last.rq.pda_comment].count = last.before[last.rq.pda_counter].counter
        /\ accounts[last.rq.pda_counter].counter =
               Inc(last.before[last.rq.pda_counter].counter)
        /\ InSequence(accounts, last.rq.pda_review))

\* C2: atomic pairing.  In every state between requests the review at
\* derive(author, title) is initialized exactly if the counter at
\* derive(review, "comment") is.
C2_AtomicPairing ==
    \A u \in Users, t \in Titles :
        Initialized(accounts, ReviewAddr(u, t))
        <=> Initialized(accounts, CounterAddr(ReviewAddr(u, t)))

\* a create that failed at the counter sub-step, after it had written the review
FailedAtCounter ==
    /\ Handled({"create"})
    /\ last.err # "Ok"
    /\ "write review" \in Range(last.log)

C2_Witness ==
    /\ FailedAtCounter
    /\ ~Initialized(accounts, last.rq.pda_review)
    /\ ~Initialized(accounts, last.rq.pda_comment_counter)

\* C3 (as claimed): single initialization.  A well-formed create for an
\* (author, title) whose review exists fails with AlreadyInitialized and
\* leaves the accounts as they were.
C3_SingleInitialization ==
    (/\ Handled({"create"})
     /\ CreateFaults(last.rq) = 0
     /\ Initialized(last.before, last.rq.pda_review))
    => (last.err = "AlreadyInitialized" /\ Unchanged)

\* an update signed by the author of the review at its handle, with another
\* title than the review's
RetitlingUpdate ==
    /\ Handled({"update"})
    /\ last.rq.n = 2 /\ last.rq.signer
    /\ Initialized(last.before, last.rq.pda_account)
    /\ last.before[last.rq.pda_account].discriminator = "review"
    /\ last.rq.pda_account =
           ReviewAddr(last.rq.updater, last.before[last.rq.pda_account].title)
    /\ last.rq.title # last.before[last.rq.pda_account].title

ReviewSize(title, description) ==
    EncodedSize([discriminator |-> "review", is_initialized |-> TRUE,
                 reviewer |-> Pubkey(UserKey(1)), rating |-> 1,
                 title |-> title, description |-> description])

\* the request just handled goes through a create: the create of processor.rs
\* or, with variant 0, the one the entrypoint of lib.rs calls
IsCreate == Handled({"create"}) \/ (Handled({"entry"}) /\ last.rq.input.variant = 0)

\* the review handle of the create or update just handled
LastReview == IF last.op = "create" THEN last.rq.pda_review ELSE last.rq.pda_account

\* the request just handled came with all the accounts its handler takes
EnoughAccounts ==
    last.rq.n >= (CASE last.op = "create" -> 4
                    [] last.op = "update" -> 2
                    [] last.op = "add"    -> 5
                    [] OTHER -> 3)

LastFaults ==
    CASE last.op = "create" -> CreateFaults(last.rq)
      [] last.op = "update" -> UpdateFaults(last.rq)
      [] last.op = "entry"  -> EntryFaults(last.rq)
      [] OTHER -> 0

\* C5 (as claimed): rating bounds.  Every review holds a rating in 1..5; a
\* create or update whose only flaw is a rating outside 1..5 fails with
\* InvalidRating; a flawless create of a review that does not exist yet, and
\* a flawless update of one that does (ratings 1 and 5), succeed.
C5_RatingBounds ==
    /\ \A a \in Reviews(accounts) : accounts[a].rating \in 1..5
    /\ ((IsCreate \/ (Handled({"update"}) /\ Initialized(last.before, LastReview)))
        /\ ~(last.rq.rating \in 1..5) /\ LastFaults = 1)
       => (last.err = "InvalidRating" /\ Unchanged)
    /\ (IsCreate /\ LastFaults = 0 /\ ~Initialized(last.before, LastReview))
       => last.err = "Ok"
    /\ (Handled({"update"}) /\ LastFaults = 0
        /\ Initialized(last.before, LastReview)
        /\ ReviewSize(last.rq.title, last.rq.description)
               <= MovieAccountState_MAX_ACCOUNT_SIZE)
       => last.err = "Ok"

\* C6 (as claimed): size ceiling.  A create or update that is flawless but
\* for its description fails with InvalidDataLength exactly if the review as
\* written takes more than 1000 bytes.
C6_SizeCeiling ==
    (/\ Handled({"create", "update"})
     /\ LastFaults = B(last.rq.description \notin GoodDescriptions))
    => (last.err = "InvalidDataLength"
        <=> ReviewSize(last.rq.title, last.rq.description)
                > MovieAccountState_MAX_ACCOUNT_SIZE)

\* C7 (as claimed): signer required.  A create, update or add-comment (with
\* all its accounts) whose acting identity has not signed fails with
\* MissingRequiredSignature and changes no account.
C7_SignerRequired ==
    (Handled({"create", "update", "add"}) /\ EnoughAccounts /\ ~last.rq.signer)
    => (last.err = "MissingRequiredSignature" /\ Unchanged)

\* C8 (as claimed): sequence invariant.  For every review with an initialized
\* counter, the sequence values of its comments are exactly 0 .. count-1.
C8_SequenceInvariant ==
    \A r \in Reviews(accounts) :
        Initialized(accounts, CounterAddr(r)) =>
            SequencesOf(accounts, r) = FirstSequences(Val(accounts[CounterAddr(r)].counter))

\* the updates of the same (author, title), signed by the author, at the
\* derived address, that may follow the create just handled
SubsequentUpdates ==
    {[n |-> 2, updater |-> last.rq.reviewer, signer |-> TRUE,
      pda_account |-> ReviewAddr(last.rq.reviewer, last.rq.title),
      title |-> last.rq.title, rating |-> r, description |-> d] :
        r \in Ratings, d \in Descriptions}

\* C9 (as claimed): after a create that failed at the counter sub-step, an
\* update of the same (author, title) fails with UninitializedAccount.
C9_FailedCreateThenUpdate_Original ==
    FailedAtCounter =>
        \A rq \in SubsequentUpdates :
            process_instruction(accounts, "UpdateMovieReview", rq).err
                = "UninitializedAccount"

\* C9 (amended): after a create that failed at the counter sub-step no account
\* has changed, and an update of the same (author, title) fails with
\* IllegalOwner: the review's account was never kept, so the program does not
\* own it, and the owner check comes first.
C9_FailedCreateThenUpdate ==
    FailedAtCounter =>
        /\ Unchanged
        /\ \A rq \in SubsequentUpdates :
            process_instruction(accounts, "UpdateMovieReview", rq).err = "IllegalOwner"

C9_Witness ==
    /\ FailedAtCounter
    /\ \E rq \in SubsequentUpdates :
        process_instruction(accounts, "UpdateMovieReview", rq).err = "IllegalOwner"

\* instruction data that is an action tag 0, 1 or 2 with the payload of that action
WellFormedInput(input) ==
    /\ ~input.empty
    /\ \/ input.variant \in {0, 1} /\ input.kind = "review"
       \/ input.variant = 2 /\ input.kind = "comment"

ActionOf(variant) ==
    CASE variant = 0 -> "AddMovieReview"
      [] variant = 1 -> "UpdateMovieReview"
      [] OTHER -> "AddComment"

\* C10 (as claimed): action dispatch.  The decoder maps the tags 0, 1 and 2,
\* each with its payload, to create, update and add-comment; for any other
\* data it returns InvalidInstructionData, and the request changes no account.
C10_ActionDispatch ==
    Handled({"entry"}) =>
        LET decoded == unpack(last.rq.input)
        IN  IF WellFormedInput(last.rq.input)
            THEN decoded.err = "Ok" /\ decoded.op = ActionOf(last.rq.input.variant)
            ELSE /\ decoded.err = "InvalidInstructionData"
                 /\ last.err = "InvalidInstructionData"
                 /\ Unchanged

\* an add-comment (with all its accounts) whose counter handle is not the
\* address derived from its review handle and "comment"
ForeignCounter ==
    /\ Handled({"add"})
    /\ EnoughAccounts
    /\ last.rq.pda_counter # CounterAddr(last.rq.pda_review)

\* C11 (as claimed): every handle is address-checked.  An add-comment whose
\* counter handle is not derive(review, "comment") is rejected (the claim:
\* with InvalidPDA) and changes neither that counter nor any comment.
C11_AddressChecked ==
    ForeignCounter => (last.err # "Ok" /\ Unchanged)

\* the records the request just handled has initialized: those it wrote with
\* is_initialized = true into an account it had allocated
InitializedByLast ==
    CASE last.err # "Ok" -> {}
      [] last.op = "create" -> {last.rq.pda_review, last.rq.pda_comment_counter}
      [] last.op = "add"    -> {last.rq.pda_comment}
      [] last.op = "entry"  -> {last.rq.pda_account}
      [] OTHER -> {}

\* C12: initialization is monotone.  Every record that was initialized before
\* a request is initialized after it, and a request initializes only records
\* that were not initialized before it (no record is initialized twice).
C12_InitializationMonotone ==
    (last # Idle) =>
        /\ \A a \in DOMAIN last.before :
               last.before[a].is_initialized => Initialized(accounts, a)
        /\ \A a \in InitializedByLast :
               ~Initialized(last.before, a) /\ Initialized(accounts, a)

\* a well-formed create of a review that exists has been turned down, and
\* the review and its counter are as they were
C12_Witness ==
    /\ Handled({"create"}) /\ CreateFaults(last.rq) = 0
    /\ Initialized(last.before, last.rq.pda_review)
    /\ last.err # "Ok"
    /\ Unchanged

\* C13 (as claimed): comments are immutable.  Every comment that was
\* initialized before a request has, after it, the review reference, author,
\* text and sequence value it had.
C13_CommentsImmutable ==
    (last # Idle) =>
        \A m \in Comments(last.before) :
            last.before[m].is_initialized =>
                /\ m \in DOMAIN accounts
                /\ accounts[m].reviewer = last.before[m].reviewer
                /\ accounts[m].commenter = last.before[m].commenter
                /\ accounts[m].comment = last.before[m].comment
                /\ accounts[m].count = last.before[m].count

\* the account the ownership check of the request just handled is about: the
\* review handle of an update or add-comment (a create has none)
OwnershipHolds ==
    \/ Handled({"create"})
    \/ Handled({"update"}) /\ OwnedByProgram(last.before, last.rq.pda_account)
    \/ Handled({"add"}) /\ OwnedByProgram(last.before, last.rq.pda_review)

\* the address check of the request just handled would fail: the review
\* handle of a create or update is not derive(signer, title)
AddressFails ==
    \/ Handled({"create"}) /\ last.rq.title.len <= 32
       /\ last.rq.pda_review # ReviewAddr(last.rq.reviewer, last.rq.title)
    \/ Handled({"update"}) /\ last.rq.title.len <= 32
       /\ last.rq.pda_account # ReviewAddr(last.rq.updater, last.rq.title)

\* C14 (as claimed): validation order signer, ownership, address, then the
\* rest.  A request (with all its accounts) fails with the error of the first
\* of these checks it violates: MissingRequiredSignature when unsigned,
\* whatever else is wrong; else IllegalOwner when its review handle is not
\* owned by the program; else InvalidPDA when its review handle is not the
\* derived address.
C14_ValidationOrder ==
    (Handled({"create", "update", "add"}) /\ EnoughAccounts) =>
        /\ ~last.rq.signer => last.err = "MissingRequiredSignature"
        /\ (last.rq.signer /\ ~OwnershipHolds) => last.err = "IllegalOwner"
        /\ (last.rq.signer /\ OwnershipHolds /\ AddressFails) => last.err = "InvalidPDA"

\* the errors the program's validation checks return
ValidationErrors ==
    {"MissingRequiredSignature", "IllegalOwner", "InvalidPDA", "InvalidRating",
     "InvalidDataLength", "UninitializedAccount"}

\* C15 (as claimed): checks precede mutation.  When a request fails at one of
\* its validation checks, it has by then allocated no account and written no
\* record.
C15_ChecksPrecedeMutation ==
    (Handled({"create", "update", "add"}) /\ last.err \in ValidationErrors)
    => last.log = <<>>

\* the initialized comments of review r
CommentsOf(accts, r) ==
    {m \in Comments(accts) : accts[m].is_initialized /\ accts[m].reviewer = Pubkey(r)}

\* in the add-comment just handled the counter was written only after the
\* comment, and a failed add-comment has left every account as it was
IncrementAfterWrite ==
    Handled({"add"}) =>
        /\ \A i \in DOMAIN last.log :
               last.log[i] = "write counter" =>
                   \E j \in 1..(i - 1) : last.log[j] = "write comment"
        /\ last.err # "Ok" => Unchanged

\* C16 (as claimed): write-then-increment.  add-comment writes the counter
\* only after the comment, a failed add-comment advances no counter, and so
\* the counter of a review never exceeds the number of its initialized
\* comments.
C16_WriteThenIncrement ==
    /\ IncrementAfterWrite
    /\ \A r \in Reviews(accounts) :
           Initialized(accounts, CounterAddr(r)) =>
               /\ Val(accounts[CounterAddr(r)].counter) >= 0
               /\ Val(accounts[CounterAddr(r)].counter)
                      <= Cardinality(CommentsOf(accounts, r))

\* C17 (as claimed): consistent counter encoding.  For every value a counter
\* holds, the seeds add-comment derives the comment address from and the
\* seeds it signs the comment's allocation with are the same, and both carry
\* the big-endian encoding of the value.
C17_ConsistentEncoding ==
    \A x \in Counters(accounts) : \A r \in Reviews(accounts) :
        LET c == accounts[x].counter
        IN  /\ comment_seeds(r, c) = comment_signer_seeds(r, c)
            /\ comment_signer_seeds(r, c)[2].bytes = to_be_bytes(c)

\* the update just handled succeeded
UpdateDone == Handled({"update"}) /\ last.err = "Ok"

CounterMissing ==
    /\ Handled({"add"})
    /\ EnoughAccounts
    /\ LET read == AsCounter(DataOf(last.before, last.rq.pda_counter))
       IN  ~read.ok \/ ~read.is_initialized

\* C19 (as claimed): an add-comment whose counter handle refers to a record
\* that is absent or not initialized returns UninitializedAccount (an error
\* value, not an abort) and changes no account.
C19_AddWithoutCounter ==
    CounterMissing => (last.err = "UninitializedAccount" /\ Unchanged)

\* the author of the review at address h: the key its address derives from
AuthorOf(h) == <<h[1]>>

\* an update (with its accounts) signed by another identity than the author of
\* the initialized review it names
ForeignUpdate ==
    /\ Handled({"update"})
    /\ EnoughAccounts
    /\ last.rq.signer
    /\ last.rq.pda_account \in Reviews(last.before)
    /\ last.before[last.rq.pda_account].is_initialized
    /\ UserKey(last.rq.updater) # AuthorOf(last.rq.pda_account)

\* C20: only the author modifies a review.  A request after which the rating
\* or description of an initialized review differs is an update of that
\* review signed by its author; an update signed by anyone else against the
\* review's address fails and leaves every account as it was.
C20_OnlyAuthorModifies ==
    (last # Idle) =>
        /\ \A h \in Reviews(last.before) :
               (/\ last.before[h].is_initialized
                /\ \/ h \notin DOMAIN accounts
                   \/ accounts[h].rating # last.before[h].rating
                   \/ accounts[h].description # last.before[h].description)
               => (/\ Handled({"update"})
                   /\ last.rq.pda_account = h
                   /\ last.rq.signer
                   /\ UserKey(last.rq.updater) = AuthorOf(h))
        /\ ForeignUpdate => (last.err # "Ok" /\ Unchanged)

\* an update of user 1's review signed by user 2, carrying the review's own
\* title, has failed
C20_Witness ==
    /\ ForeignUpdate
    /\ last.rq.title = last.before[last.rq.pda_account].title
    /\ last.rq.rating \in 1..5
    /\ last.err = "InvalidPDA"
    /\ Unchanged

====
